---- MODULE Spec2Model ----
(***************************************************************************)
(* Model of src/app.py: the prompt decomposer (ai_prompt_decomposition),   *)
(* the backend wrapper (get_ai_response), the eager chain executor         *)
(* (process_prompt_chain) and the Streamlit chat-input handler with its    *)
(* incremental chain loop.                                                 *)
(*                                                                         *)
(* A text is a sequence of tokens.  Characters that matter to the code     *)
(* (brackets, quotes, commas, letters, digits) are one token each; the     *)
(* literal pieces of the f-string templates are one token each.            *)
(***************************************************************************)
EXTENDS Integers, Sequences, FiniteSets, TLC

(***************************************************************************)
(* Bounds                                                                  *)
(***************************************************************************)
MaxFree == 5     \* longest free-form backend reply given to the decomposer
MaxProse == 1    \* longest prose before / after an embedded JSON array
MaxElems == 2    \* most strings in an embedded JSON array
MaxTurns == 2    \* chat inputs submitted in one session
MaxChain == 3    \* longest list handed to process_prompt_chain

(***************************************************************************)
(* State                                                                   *)
(***************************************************************************)
VARIABLES
    \* st.session_state
    messages, enable_prompt_splitting, model,
    \* the chat-input handler: position, its locals, and what it has shown
    pc, prompt, sub_prompts, context, i, errors,
    \* the backend as seen from one handler run: calls received, the
    \* (sub-query, response) pairs displayed, the steps whose call raised
    calls, records, failed,
    turns,
    \* one invocation of process_prompt_chain: position, argument, locals,
    \* and the backend calls it made / the steps whose call raised
    e_pc, e_prompts, e_responses, e_context, e_i, e_calls, e_failed,
    \* one invocation of ai_prompt_decomposition on its own
    d_pc, d_query, d_outcome, d_result, d_errors

svars == <<messages, enable_prompt_splitting, model, pc, prompt, sub_prompts,
           context, i, errors, calls, records, failed, turns>>
evars == <<e_pc, e_prompts, e_responses, e_context, e_i, e_calls, e_failed>>
dvars == <<d_pc, d_query, d_outcome, d_result, d_errors>>
vars == <<svars, evars, dvars>>

(***************************************************************************)
(* Texts                                                                   *)
(***************************************************************************)
Alphabet == {"[", "]", "\"", ",", "a", "1"}

TextsUpTo(n) == UNION {[1..k -> Alphabet] : k \in 0..n}

StrChars == Alphabet \ {"\""}

RECURSIVE Flatten(_)
Flatten(ss) == IF ss = <<>> THEN <<>> ELSE Head(ss) \o Flatten(Tail(ss))

\* str.find(ch): 0-based index of the first occurrence, -1 when absent
Find(s, ch) ==
    IF \E k \in 1..Len(s) : s[k] = ch
    THEN (CHOOSE k \in 1..Len(s) : s[k] = ch /\ \A j \in 1..(k-1) : s[j] # ch) - 1
    ELSE -1

\* a scan that stops at the first occurrence where the last is wanted
RFindFirst(s, ch) == Find(s, ch)

\* str.rfind(ch): 0-based index of the last occurrence, -1 when absent
RFind(s, ch) ==
    IF \E k \in 1..Len(s) : s[k] = ch
    THEN (CHOOSE k \in 1..Len(s) : s[k] = ch /\ \A j \in (k+1)..Len(s) : s[j] # ch) - 1
    ELSE -1

\* s[a:b] for 0 <= a and 0 <= b (Python slice, clamped, empty when b <= a)
Slice(s, a, b) ==
    LET hi == IF b > Len(s) THEN Len(s) ELSE b
    IN  IF hi <= a THEN <<>> ELSE SubSeq(s, a + 1, hi)

(***************************************************************************)
(* json.loads on texts over Alphabet.  Positions are 1-based; an "end" is  *)
(* the position after the value, 0 when the scan raises.                   *)
(***************************************************************************)
StringEnd(s, p) ==
    IF \E j \in (p+1)..Len(s) : s[j] = "\""
    THEN (CHOOSE j \in (p+1)..Len(s) :
              s[j] = "\"" /\ \A k \in (p+1)..(j-1) : s[k] # "\"") + 1
    ELSE 0

NumberEnd(s, p) ==
    CHOOSE j \in (p+1)..(Len(s)+1) :
        /\ \A k \in p..(j-1) : s[k] = "1"
        /\ (j = Len(s) + 1 \/ s[j] # "1")

RECURSIVE ValueEnd(_, _), ElemsEnd(_, _)
ValueEnd(s, p) ==
    IF p > Len(s) THEN 0
    ELSE IF s[p] = "\"" THEN StringEnd(s, p)
    ELSE IF s[p] = "1" THEN NumberEnd(s, p)
    ELSE IF s[p] = "["
         THEN IF p + 1 <= Len(s) /\ s[p+1] = "]" THEN p + 2 ELSE ElemsEnd(s, p + 1)
    ELSE 0

ElemsEnd(s, p) ==
    LET e == ValueEnd(s, p)
    IN  IF e = 0 \/ e > Len(s) THEN 0
        ELSE IF s[e] = "," THEN ElemsEnd(s, e + 1)
        ELSE IF s[e] = "]" THEN e + 1
        ELSE 0

\* one decoded JSON value: its Python type and its text (str() of it for
\* strings and integers, the source text for a nested list)
Elem(s, p, e) ==
    IF s[p] = "\"" THEN [kind |-> "str", text |-> SubSeq(s, p + 1, e - 2)]
    ELSE IF s[p] = "1" THEN [kind |-> "int", text |-> SubSeq(s, p, e - 1)]
    ELSE [kind |-> "list", text |-> SubSeq(s, p, e - 1)]

RECURSIVE Items(_, _)
Items(s, p) ==
    IF s[p] = "]" THEN <<>>
    ELSE LET e == ValueEnd(s, p)
         IN  <<Elem(s, p, e)>> \o (IF s[e] = "," THEN Items(s, e + 1) ELSE <<>>)

\* json.loads(s): ok = FALSE when it raises; otherwise whether the value is
\* a list, and its items (the single value itself when it is not a list)
JsonLoads(s) ==
    LET e == ValueEnd(s, 1)
    IN  IF s = <<>> \/ e # Len(s) + 1
        THEN [ok |-> FALSE, islist |-> FALSE, items |-> <<>>]
        ELSE IF s[1] = "["
        THEN [ok |-> TRUE, islist |-> TRUE, items |-> Items(s, 2)]
        ELSE [ok |-> TRUE, islist |-> FALSE, items |-> <<Elem(s, 1, e)>>]

(***************************************************************************)
(* The backend (litellm completion): an outcome is a reply text or a       *)
(* raised exception carrying a message.                                    *)
(***************************************************************************)
Reply(t) == [ok |-> TRUE, text |-> t]
Failure(t) == [ok |-> FALSE, text |-> t]

ErrorMarker == "Error: "
DefaultModel == "gpt-4o-mini"

\* an error string without the marker
GetAiResponseUnmarked(outcome) == outcome.text

\* get_ai_response: the reply content, or the exception as an error string
GetAiResponse(outcome) ==
    IF outcome.ok THEN outcome.text ELSE <<ErrorMarker>> \o outcome.text

(***************************************************************************)
(* ai_prompt_decomposition                                                 *)
(***************************************************************************)
DecompositionHead == "Break down this complex query ... Complex query: \""
DecompositionTail == "\" Return ONLY a JSON array of strings ..."
DecompositionPrompt(q) == <<DecompositionHead>> \o q \o <<DecompositionTail>>

DiagnosticHead == "Error in prompt decomposition: "
JsonError == "JSONDecodeError"

StrElem(t) == [kind |-> "str", text |-> t]

\* giving up with nothing at all
FallbackEmpty(q) == <<>>

\* the value returned when decomposition gives up: [complex_prompt]
Fallback(q) == <<StrElem(q)>>

\* the value returned when the parsed JSON is not a list
NotAList == <<>>

\* result: the returned list; errors: the st.error diagnostics shown
ai_prompt_decomposition(q, outcome) ==
    IF ~outcome.ok
    THEN [result |-> Fallback(q), errors |-> <<<<DiagnosticHead>> \o outcome.text>>]
    ELSE
      LET response_text == outcome.text
          start_idx == Find(response_text, "[")
          end_idx == RFind(response_text, "]") + 1
      IN  IF start_idx # -1 /\ end_idx # -1
          THEN LET json_str == Slice(response_text, start_idx, end_idx)
                   parsed == JsonLoads(json_str)
               IN  IF ~parsed.ok
                   THEN [result |-> Fallback(q),
                         errors |-> <<<<DiagnosticHead, JsonError>>>>]
                   ELSE [result |-> IF parsed.islist THEN parsed.items
                                                         ELSE NotAList,
                         errors |-> <<>>]
          ELSE [result |-> Fallback(q), errors |-> <<>>]

(***************************************************************************)
(* Inputs of the decomposer check                                          *)
(***************************************************************************)
Queries == {<<"a">>, <<"1", "a">>}

\* json.dumps of a list of strings (no separator spaces)
RECURSIVE EncodeItems(_)
EncodeItems(arr) ==
    IF arr = <<>> THEN <<>>
    ELSE <<"\"">> \o Head(arr) \o <<"\"">>
         \o (IF Tail(arr) = <<>> THEN <<>> ELSE <<",">> \o EncodeItems(Tail(arr)))

Encode(arr) == <<"[">> \o EncodeItems(arr) \o <<"]">>

\* sub-query strings, with and without the characters the extraction looks for
SubQueryTexts == {<<>>, <<"a">>, <<"]">>, <<"[">>}
StringArrays == UNION {[1..n -> SubQueryTexts] : n \in 1..MaxElems}
ProseChars == {"[", "]", "a"}
Prose == UNION {[1..k -> ProseChars] : k \in 0..MaxProse}

EmbeddedReplies == {pre \o Encode(arr) \o post : pre \in Prose, arr \in StringArrays, post \in Prose}
DecompReplies == TextsUpTo(MaxFree) \cup EmbeddedReplies
ErrorTexts == {<<"a">>}
DecompOutcomes == {Reply(t) : t \in DecompReplies} \cup {Failure(t) : t \in ErrorTexts}

(***************************************************************************)
(* Chain execution: context accumulation and prompt wrapping               *)
(***************************************************************************)
Models == {DefaultModel, "gpt-4o"}

\* the indentation of the f-string template inside each loop
EagerIndent == "            "
UiIndent == "                    "

TemplateGiven == "Given this context from previous responses: \n"
TemplatePlease == "Please address this follow-up question while considering the above context:\n"

\* every prompt built from the sub-query alone, as a fan-out would
ContextPromptNoContext(indent, ctx, p) == p

\* the template applied even to an empty context
ContextPromptAlwaysWrapped(indent, ctx, p) ==
    <<"\n", indent, TemplateGiven, indent>> \o ctx
    \o <<"\n", indent, "\n", indent, TemplatePlease, indent>> \o p
    \o <<"\n", indent>>

\* context_prompt: the sub-query itself while the context is empty
ContextPrompt(indent, ctx, p) ==
    IF ctx # <<>>
    THEN <<"\n", indent, TemplateGiven, indent>> \o ctx
         \o <<"\n", indent, "\n", indent, TemplatePlease, indent>> \o p
         \o <<"\n", indent>>
    ELSE p

\* a pair rendered without its closing newline
RenderPairUnterminated(p, r) == <<"\n", "Q: ">> \o p \o <<"\n", "A: ">> \o r

\* f"\nQ: {prompt}\nA: {response}\n"
RenderPair(p, r) == <<"\n", "Q: ">> \o p \o <<"\n", "A: ">> \o r \o <<"\n">>

\* context = ... : keeping only the latest pair
AddToContextOverwrite(ctx, p, r) == RenderPair(p, r)

\* context += f"\nQ: {prompt}\nA: {response}\n"
AddToContext(ctx, p, r) == ctx \o RenderPair(p, r)

\* a run that starts from what the session has already shown
NewRunContextFromHistory == Flatten([k \in 1..Len(messages) |-> messages[k].content])

\* context = ""
NewRunContext == <<>>

\* responses.insert(0, ...)
PrependRecord(rs, p, r) == <<<<p, r>>>> \o rs

\* responses.append((prompt, response))
AppendRecord(rs, p, r) == Append(rs, <<p, r>>)

\* the model a chain step passes to get_ai_response: none, so its default
ChainStepModel == DefaultModel

Call(p, m) == [prompt |-> p, model |-> m]

\* the model of a direct call: model=st.session_state.model
DirectCallModelDefault == DefaultModel

DirectCallModel == model

\* a chain for every non-empty result
RunsChainFromOne(result) == Len(result) > 0

\* len(sub_prompts) > 1
RunsChain(result) == Len(result) > 1

\* a loop that advances by two
NextIndexSkipping(k) == k + 2

\* the for loop moving to its next element
NextIndex(k) == k + 1

\* str(sub_prompt) as the f-strings render it
Str(e) == e.text

\* f"**Part {i}**: {sub_prompt}\n\n{response}"
PartContent(n, p, r) == <<"**Part ", ToString(n), "**: ">> \o p \o <<"\n\n">> \o r

Message(role, content) == [role |-> role, content |-> content]

\* the newest message written over the last one
ReplaceLastMessage(ms, m) ==
    IF ms = <<>> THEN <<m>> ELSE [ms EXCEPT ![Len(ms)] = m]

\* st.session_state.messages.append(...)
AppendMessage(ms, m) == Append(ms, m)

(***************************************************************************)
(* Inputs of the session                                                   *)
(***************************************************************************)
SubQueries == {<<"a">>, <<"1">>}

TurnOutcomes ==
    { Reply(Encode(<< <<"a">>, <<"1">> >>)),
      Reply(<<"a">> \o Encode(<< <<"1">>, <<"a">>, <<"a">> >>)),
      Reply(Encode(<< <<"1">> >>)),
      Reply(<<"[", "]">>),
      Reply(<<"a">>),
      Failure(<<"a">>) }

StepOutcomes == {Reply(<<"a">>), Failure(<<"a">>)}

PromptLists == UNION {[1..n -> SubQueries] : n \in 0..MaxChain}

(***************************************************************************)
(* Initial state: a fresh session, nothing running                         *)
(***************************************************************************)
InitSession ==
    /\ messages = <<>>
    /\ enable_prompt_splitting = FALSE
    /\ model = DefaultModel
    /\ pc = "idle"
    /\ prompt = <<>>
    /\ sub_prompts = <<>>
    /\ context = <<>>
    /\ i = 0
    /\ errors = <<>>
    /\ calls = <<>>
    /\ records = <<>>
    /\ failed = {}
    /\ turns = 0

InitEager ==
    /\ e_pc = "idle"
    /\ e_prompts = <<>>
    /\ e_responses = <<>>
    /\ e_context = <<>>
    /\ e_i = 0
    /\ e_calls = <<>>
    /\ e_failed = {}

InitNoDecompose ==
    /\ d_pc = "idle"
    /\ d_query = <<>>
    /\ d_outcome = Reply(<<>>)
    /\ d_result = <<>>
    /\ d_errors = <<>>

Init == InitSession /\ InitEager /\ InitNoDecompose

(***************************************************************************)
(* The sidebar                                                             *)
(***************************************************************************)
SetSplitting(b) ==
    /\ pc = "idle" /\ e_pc = "idle"
    /\ enable_prompt_splitting' = b
    /\ UNCHANGED <<messages, model, pc, prompt, sub_prompts, context, i, errors,
                   calls, records, failed, turns>>
    /\ UNCHANGED <<evars, dvars>>

SetModel(m) ==
    /\ pc = "idle" /\ e_pc = "idle"
    /\ model' = m
    /\ UNCHANGED <<messages, enable_prompt_splitting, pc, prompt, sub_prompts,
                   context, i, errors, calls, records, failed, turns>>
    /\ UNCHANGED <<evars, dvars>>

(***************************************************************************)
(* The chat-input handler.  It blocks in each backend call; an action runs *)
(* from the return of one call to the issue of the next.                   *)
(***************************************************************************)
Submit(q) ==
    /\ pc = "idle" /\ e_pc = "idle"
    /\ turns < MaxTurns
    /\ turns' = turns + 1
    /\ messages' = AppendMessage(messages, Message("user", q))
    /\ prompt' = q
    /\ IF enable_prompt_splitting
       THEN /\ calls' = <<Call(DecompositionPrompt(q), DefaultModel)>>
            /\ pc' = "decomposing"
       ELSE /\ calls' = <<Call(q, DirectCallModel)>>
            /\ pc' = "direct"
    /\ UNCHANGED <<enable_prompt_splitting, model, sub_prompts, context, i, errors,
                   records, failed>>
    /\ UNCHANGED <<evars, dvars>>

DecompositionStep(outcome) ==
    /\ pc = "decomposing"
    /\ LET r == ai_prompt_decomposition(prompt, outcome)
       IN  /\ sub_prompts' = r.result
           /\ errors' = r.errors
           /\ IF RunsChain(r.result)
              THEN /\ context' = NewRunContext
                   /\ i' = 1
                   /\ calls' = Append(calls,
                          Call(ContextPrompt(UiIndent, context', Str(r.result[1])),
                               ChainStepModel))
                   /\ pc' = "chain"
              ELSE /\ calls' = Append(calls, Call(prompt, DirectCallModel))
                   /\ pc' = "direct"
                   /\ UNCHANGED <<context, i>>
    /\ UNCHANGED <<messages, enable_prompt_splitting, model, prompt, records,
                   failed, turns>>

DecompositionReturns(outcome) ==
    /\ DecompositionStep(outcome)
    /\ UNCHANGED <<evars, dvars>>

ChainStep(outcome) ==
    /\ pc = "chain"
    /\ LET sub_prompt == Str(sub_prompts[i])
           response == GetAiResponse(outcome)
       IN  /\ messages' = AppendMessage(messages,
                              Message("assistant", PartContent(i, sub_prompt, response)))
           /\ records' = AppendRecord(records, sub_prompt, response)
           /\ failed' = IF outcome.ok THEN failed ELSE failed \cup {i}
           /\ context' = AddToContext(context, sub_prompt, response)
           /\ IF NextIndex(i) <= Len(sub_prompts)
              THEN /\ i' = NextIndex(i)
                   /\ calls' = Append(calls,
                          Call(ContextPrompt(UiIndent, context', Str(sub_prompts[i'])),
                               ChainStepModel))
                   /\ pc' = "chain"
              ELSE /\ pc' = "done"
                   /\ UNCHANGED <<i, calls>>
    /\ UNCHANGED <<enable_prompt_splitting, model, prompt, sub_prompts, errors, turns>>

ChainStepReturns(outcome) ==
    /\ ChainStep(outcome)
    /\ UNCHANGED <<evars, dvars>>

DirectReturns(outcome) ==
    /\ pc = "direct"
    /\ messages' = AppendMessage(messages, Message("assistant", GetAiResponse(outcome)))
    /\ pc' = "done"
    /\ UNCHANGED <<enable_prompt_splitting, model, prompt, sub_prompts, context, i,
                   errors, calls, records, failed, turns>>
    /\ UNCHANGED <<evars, dvars>>

\* the handler's locals and what it has shown go with the script run; only
\* st.session_state survives it
DropLocals ==
    /\ pc' = "idle"
    /\ prompt' = <<>>
    /\ sub_prompts' = <<>>
    /\ context' = <<>>
    /\ i' = 0
    /\ errors' = <<>>
    /\ calls' = <<>>
    /\ records' = <<>>
    /\ failed' = {}
    /\ UNCHANGED <<messages, enable_prompt_splitting, model, turns>>

\* the script run ends
ScriptEnds ==
    /\ pc = "done"
    /\ DropLocals
    /\ UNCHANGED <<evars, dvars>>

\* Streamlit stops a script run that is waiting in a backend call when the
\* user touches a widget; what the run has appended to the session stays
Interrupt ==
    /\ pc \in {"decomposing", "chain", "direct"}
    /\ DropLocals
    /\ UNCHANGED <<evars, dvars>>

(***************************************************************************)
(* process_prompt_chain.  It reads and writes no session state, so it is   *)
(* exercised from sessions that have not yet taken a chat input.           *)
(***************************************************************************)
EagerCall(ps) ==
    /\ e_prompts' = ps
    /\ e_responses' = <<>>
    /\ e_context' = NewRunContext
    /\ e_failed' = {}
    /\ IF ps # <<>>
       THEN /\ e_i' = 1
            /\ e_calls' = <<Call(ContextPrompt(EagerIndent, e_context', ps[1]),
                                 ChainStepModel)>>
            /\ e_pc' = "running"
       ELSE /\ e_i' = 0
            /\ e_calls' = <<>>
            /\ e_pc' = "returned"

EagerStart(ps) ==
    /\ pc = "idle" /\ e_pc = "idle"
    /\ turns = 0
    /\ EagerCall(ps)
    /\ UNCHANGED <<svars, dvars>>

EagerStep(outcome) ==
    /\ e_pc = "running"
    /\ LET p == e_prompts[e_i]
           response == GetAiResponse(outcome)
       IN  /\ e_responses' = AppendRecord(e_responses, p, response)
           /\ e_failed' = IF outcome.ok THEN e_failed ELSE e_failed \cup {e_i}
           /\ e_context' = AddToContext(e_context, p, response)
           /\ IF NextIndex(e_i) <= Len(e_prompts)
              THEN /\ e_i' = NextIndex(e_i)
                   /\ e_calls' = Append(e_calls,
                          Call(ContextPrompt(EagerIndent, e_context', e_prompts[e_i']),
                               ChainStepModel))
                   /\ e_pc' = "running"
              ELSE /\ e_pc' = "returned"
                   /\ UNCHANGED <<e_i, e_calls>>
    /\ UNCHANGED e_prompts

EagerStepReturns(outcome) ==
    /\ EagerStep(outcome)
    /\ UNCHANGED <<svars, dvars>>

\* the caller has taken the returned list; the frame is gone
EagerReturn ==
    /\ e_pc = "returned"
    /\ e_pc' = "idle"
    /\ e_prompts' = <<>>
    /\ e_responses' = <<>>
    /\ e_context' = <<>>
    /\ e_i' = 0
    /\ e_calls' = <<>>
    /\ e_failed' = {}

EagerDone ==
    /\ EagerReturn
    /\ UNCHANGED <<svars, dvars>>

Next ==
    \/ \E b \in BOOLEAN : SetSplitting(b)
    \/ \E m \in Models : SetModel(m)
    \/ \E q \in Queries : Submit(q)
    \/ \E outcome \in TurnOutcomes : DecompositionReturns(outcome)
    \/ \E outcome \in StepOutcomes : ChainStepReturns(outcome)
    \/ \E outcome \in StepOutcomes : DirectReturns(outcome)
    \/ ScriptEnds
    \/ \E ps \in PromptLists : EagerStart(ps)
    \/ \E outcome \in StepOutcomes : EagerStepReturns(outcome)
    \/ EagerDone

Spec == Init /\ [][Next]_vars

(***************************************************************************)
(* The session when a script run may be stopped before it finishes         *)
(***************************************************************************)
NextInterruptible ==
    \/ Next
    \/ Interrupt

SpecInterruptible == Init /\ [][NextInterruptible]_vars

(***************************************************************************)
(* The backend answers every call it is given, with a reply or an error    *)
(***************************************************************************)
ChainProgress == \E outcome \in StepOutcomes : ChainStepReturns(outcome)
EagerProgress == \E outcome \in StepOutcomes : EagerStepReturns(outcome)

SpecAnswered == Spec /\ WF_vars(ChainProgress) /\ WF_vars(EagerProgress)

(***************************************************************************)
(* Both executors on the same sub-queries and the same backend: whenever   *)
(* the handler starts its chain loop, process_prompt_chain is called with  *)
(* the same list, and every backend outcome is given to both.              *)
(***************************************************************************)
PairDecompositionReturns(outcome) ==
    /\ DecompositionStep(outcome)
    /\ IF pc' = "chain"
       THEN EagerCall([k \in 1..Len(sub_prompts') |-> Str(sub_prompts'[k])])
       ELSE UNCHANGED evars
    /\ UNCHANGED dvars

PairStepReturns(outcome) ==
    /\ ChainStep(outcome)
    /\ EagerStep(outcome)
    /\ UNCHANGED dvars

PairEnds ==
    /\ pc = "done"
    /\ DropLocals
    /\ IF e_pc = "returned" THEN EagerReturn ELSE UNCHANGED evars
    /\ UNCHANGED dvars

NextPair ==
    \/ \E b \in BOOLEAN : SetSplitting(b)
    \/ \E m \in Models : SetModel(m)
    \/ \E q \in Queries : Submit(q)
    \/ \E outcome \in TurnOutcomes : PairDecompositionReturns(outcome)
    \/ \E outcome \in StepOutcomes : PairStepReturns(outcome)
    \/ \E outcome \in StepOutcomes : DirectReturns(outcome)
    \/ PairEnds

SpecPair == Init /\ [][NextPair]_vars

(***************************************************************************)
(* ai_prompt_decomposition on its own, over every bounded backend outcome  *)
(***************************************************************************)
InitDecompose ==
    /\ InitSession /\ InitEager
    /\ d_pc = "called"
    /\ d_query \in Queries
    /\ d_outcome \in DecompOutcomes
    /\ d_result = <<>>
    /\ d_errors = <<>>

DecomposeReturns ==
    /\ d_pc = "called"
    /\ LET r == ai_prompt_decomposition(d_query, d_outcome)
       IN  /\ d_result' = r.result
           /\ d_errors' = r.errors
    /\ d_pc' = "returned"
    /\ UNCHANGED <<d_query, d_outcome>>
    /\ UNCHANGED <<svars, evars>>

NextDecompose == DecomposeReturns

SpecDecompose == InitDecompose /\ [][NextDecompose]_vars

(***************************************************************************)
(* Properties                                                              *)
(***************************************************************************)
Contains(t, sub) ==
    \E a \in 1..(Len(t) - Len(sub) + 1) : SubSeq(t, a, a + Len(sub) - 1) = sub

\* the list [t1, ..., tn] of Python strings
StrList(arr) == [k \in 1..Len(arr) |-> [kind |-> "str", text |-> arr[k]]]

NoBracketPair(t) ==
    \/ \A k \in 1..Len(t) : t[k] # "["
    \/ \A k \in 1..Len(t) : t[k] # "]"
    \/ \E k \in 1..Len(t) : /\ t[k] = "["
                            /\ \A j \in 1..(k-1) : t[j] # "["
                            /\ \A m \in k..Len(t) : t[m] # "]"

\* the text from the first "[" through the last "]"
Bracketed(t) == SubSeq(t, Find(t, "[") + 1, RFind(t, "]") + 1)

EncodedArrays == {Encode(arr) : arr \in StringArrays}
ArrayOf(enc) == CHOOSE arr \in StringArrays : Encode(arr) = enc

\* C1: whatever the backend call gives (any reply text, or a failure),
\* ai_prompt_decomposition returns a non-empty list.
C1_NeverEmpty == d_pc = "returned" => d_result # <<>>

\* C2 (as stated): a reply that contains a valid JSON array of one or more
\* strings, with any prose before and after it, is decomposed to exactly
\* that array.
C2_AnyProse ==
    (d_pc = "returned" /\ d_outcome.ok) =>
        \A a \in 1..Len(d_outcome.text) : \A b \in a..Len(d_outcome.text) :
            LET seg == SubSeq(d_outcome.text, a, b)
            IN  seg \in EncodedArrays => d_result = StrList(ArrayOf(seg))

\* C2 (amended): a reply that contains a valid JSON array of one or more
\* strings, with prose before it that holds no "[" and prose after it that
\* holds no "]", is decomposed to exactly that array, in the same order.
C2_ProseWithoutOuterBrackets ==
    (d_pc = "returned" /\ d_outcome.ok) =>
        \A a \in 1..Len(d_outcome.text) : \A b \in a..Len(d_outcome.text) :
            LET seg == SubSeq(d_outcome.text, a, b)
            IN  (/\ seg \in EncodedArrays
                 /\ \A k \in 1..(a-1) : d_outcome.text[k] # "["
                 /\ \A k \in (b+1)..Len(d_outcome.text) : d_outcome.text[k] # "]")
                => d_result = StrList(ArrayOf(seg))

C2_Witness ==
    /\ d_pc = "returned"
    /\ d_outcome = Reply(<<"]">> \o Encode(<< <<"]">>, <<"a">> >>) \o <<"[">>)
    /\ d_result = <<[kind |-> "str", text |-> <<"]">>], [kind |-> "str", text |-> <<"a">>]>>

\* C3: when the reply has no bracket pair, or its bracketed content does not
\* parse as JSON, or the backend call fails, the result is exactly the
\* singleton list holding the original query.
C3_Fallback ==
    (/\ d_pc = "returned"
     /\ \/ ~d_outcome.ok
        \/ NoBracketPair(d_outcome.text)
        \/ ~JsonLoads(Bracketed(d_outcome.text)).ok)
    => d_result = <<[kind |-> "str", text |-> d_query]>>

C3_Witness ==
    /\ d_pc = "returned"
    /\ d_outcome = Reply(<<"]", "a", "[">>)
    /\ d_result = <<[kind |-> "str", text |-> d_query]>>

\* the (sub-query, response) pairs of steps 1..n, rendered in step order
RECURSIVE RenderedPairs(_, _)
RenderedPairs(rs, n) ==
    IF n = 0 THEN <<>>
    ELSE RenderedPairs(rs, n - 1)
         \o <<"\n", "Q: ">> \o rs[n][1] \o <<"\n", "A: ">> \o rs[n][2] \o <<"\n">>

\* C4: in both executors, the context from which the prompt of a step is
\* built is the rendered pairs of exactly the earlier steps, once each, in
\* step order, and the call in flight carries the prompt built from it.
C4_ContextOfStep ==
    /\ pc = "chain" =>
          /\ Len(records) = i - 1
          /\ context = RenderedPairs(records, i - 1)
          /\ calls[Len(calls)].prompt = ContextPrompt(UiIndent, context, sub_prompts[i].text)
    /\ e_pc = "running" =>
          /\ Len(e_responses) = e_i - 1
          /\ e_context = RenderedPairs(e_responses, e_i - 1)
          /\ e_calls[Len(e_calls)].prompt = ContextPrompt(EagerIndent, e_context, e_prompts[e_i])

C4_Witness ==
    /\ pc = "chain" /\ i = 3
    /\ records = << <<(<<"1">>), (<<"a">>)>>, <<(<<"a">>), (<<ErrorMarker, "a">>)>> >>

\* C5: a backend failure on step k does not stop the chain: the run ends
\* with one record per sub-query, record k's response starts with the error
\* marker, and the prompt of step k+1 carries that text as the answer of
\* step k.
C5_FailureIsolated ==
    /\ \A k \in failed :
          /\ k <= Len(records)
          /\ Head(records[k][2]) = "Error: "
          /\ Len(calls) >= k + 2 =>
                Contains(calls[k + 2].prompt,
                         <<"\n", "Q: ">> \o records[k][1] \o <<"\n", "A: ">> \o records[k][2]
                         \o <<"\n">>)
    /\ (pc = "done" /\ Len(sub_prompts) >= 2) => Len(records) = Len(sub_prompts)
    /\ \A k \in e_failed :
          /\ k <= Len(e_responses)
          /\ Head(e_responses[k][2]) = "Error: "
          /\ Len(e_calls) >= k + 1 =>
                Contains(e_calls[k + 1].prompt,
                         <<"\n", "Q: ">> \o e_responses[k][1] \o <<"\n", "A: ">>
                         \o e_responses[k][2] \o <<"\n">>)
    /\ (e_pc = "returned" /\ Len(e_prompts) >= 2) => Len(e_responses) = Len(e_prompts)

C5_Witness ==
    /\ pc = "done" /\ Len(sub_prompts) = 3 /\ failed = {1, 2}
    /\ Len(records) = 3

\* C6: process_prompt_chain returns one record per sub-query, and the j-th
\* record carries the j-th sub-query.
C6_RecordsFollowInput ==
    e_pc = "returned" =>
        /\ Len(e_responses) = Len(e_prompts)
        /\ \A j \in 1..Len(e_prompts) : e_responses[j][1] = e_prompts[j]

C6_Witness ==
    /\ e_pc = "returned"
    /\ e_prompts = << <<"a">>, <<"1">>, <<"a">> >>
    /\ Len(e_responses) = 3

\* C7: the backend call of every chain step uses the model configured in
\* the session.
C7_ConfiguredModel == pc = "chain" => calls[Len(calls)].model = model

\* C8: a fallback to the singleton original query (no bracket pair, or the
\* bracketed content does not parse) always comes with a diagnostic.
C8_FallbackReported ==
    (/\ d_pc = "returned"
     /\ d_outcome.ok
     /\ NoBracketPair(d_outcome.text) \/ ~JsonLoads(Bracketed(d_outcome.text)).ok
     /\ d_result = <<[kind |-> "str", text |-> d_query]>>)
    => d_errors # <<>>

\* C9: every element of the list returned by ai_prompt_decomposition is a
\* string.
C9_OnlyStrings ==
    d_pc = "returned" => \A k \in 1..Len(d_result) : d_result[k].kind = "str"

\* C10: the first step of every run, in either executor, is built from an
\* empty context: its prompt is the first sub-query alone, whatever earlier
\* turns and runs have put in the session.
C10_FreshContext ==
    /\ (pc = "chain" /\ i = 1) =>
          /\ context = <<>>
          /\ calls[Len(calls)].prompt = sub_prompts[1].text
    /\ (e_pc = "running" /\ e_i = 1) =>
          /\ e_context = <<>>
          /\ e_calls[Len(e_calls)].prompt = e_prompts[1]

C10_Witness ==
    /\ pc = "chain" /\ i = 1 /\ turns = 2
    /\ Len(messages) >= 4
    /\ \E k \in 1..Len(messages) : Head(messages[k].content) = "**Part "

\* p holds ctx and, somewhere after it, sub
HoldsInOrder(p, ctx, sub) ==
    \E a \in 1..Len(p) : \E b \in 1..Len(p) :
        /\ a + Len(ctx) <= b
        /\ b + Len(sub) - 1 <= Len(p)
        /\ SubSeq(p, a, a + Len(ctx) - 1) = ctx
        /\ SubSeq(p, b, b + Len(sub) - 1) = sub

\* C11: the prompt sent for a step is the sub-query unchanged while the
\* context is empty, and otherwise a longer text that holds the whole
\* context and, after it, the sub-query.
C11_Wrap ==
    /\ pc = "chain" =>
          LET p == calls[Len(calls)].prompt
              sub == sub_prompts[i].text
          IN  IF context = <<>> THEN p = sub
              ELSE /\ HoldsInOrder(p, context, sub)
                   /\ Len(p) > Len(context) + Len(sub)
    /\ e_pc = "running" =>
          LET p == e_calls[Len(e_calls)].prompt
              sub == e_prompts[e_i]
          IN  IF e_context = <<>> THEN p = sub
              ELSE /\ HoldsInOrder(p, e_context, sub)
                   /\ Len(p) > Len(e_context) + Len(sub)

C11_Witness ==
    /\ pc = "chain" /\ i = 2 /\ context # <<>>
    /\ calls[2].prompt = sub_prompts[1].text
    /\ calls[3].prompt # sub_prompts[2].text

\* the log rendered with "Q: {subQuery}\nA: {response}\n" per record
RECURSIVE RenderAsSpecified(_)
RenderAsSpecified(rs) ==
    IF rs = <<>> THEN <<>>
    ELSE <<"Q: ">> \o Head(rs)[1] \o <<"\n", "A: ">> \o Head(rs)[2] \o <<"\n">>
         \o RenderAsSpecified(Tail(rs))

\* the log rendered with "\nQ: {subQuery}\nA: {response}\n" per record
RECURSIVE RenderWithLeadingNewline(_)
RenderWithLeadingNewline(rs) ==
    IF rs = <<>> THEN <<>>
    ELSE <<"\n", "Q: ">> \o Head(rs)[1] \o <<"\n", "A: ">> \o Head(rs)[2] \o <<"\n">>
         \o RenderWithLeadingNewline(Tail(rs))

\* C12 (as stated): the context text is empty for an empty log and otherwise
\* exactly the records rendered as "Q: {subQuery}\nA: {response}\n", in log
\* order, with nothing before, between or after them.
C12_RenderExact ==
    /\ pc \in {"chain", "done"} => context = RenderAsSpecified(records)
    /\ e_pc \in {"running", "returned"} => e_context = RenderAsSpecified(e_responses)

\* C12 (amended): the context text is empty for an empty log and otherwise
\* exactly the records rendered as "\nQ: {subQuery}\nA: {response}\n" (each
\* record preceded by a newline), in log order, with nothing else added.
C12_RenderWithLeadingNewline ==
    /\ pc \in {"chain", "done"} => context = RenderWithLeadingNewline(records)
    /\ e_pc \in {"running", "returned"} => e_context = RenderWithLeadingNewline(e_responses)

C12_Witness ==
    /\ e_pc = "returned"
    /\ Len(e_responses) = 2
    /\ e_context = <<"\n", "Q: ", "1", "\n", "A: ", "a", "\n",
                     "\n", "Q: ", "a", "\n", "A: ", ErrorMarker, "a", "\n">>

\* C13: chain steps are strictly sequential: while a step's call is in
\* flight every earlier step is answered and recorded and no other call of
\* the run is open, the calls are for the sub-queries in their order, and
\* the call of each later step carries the answer of the step before it.
C13_Sequential ==
    /\ pc = "chain" => (Len(calls) = Len(records) + 2 /\ i = Len(records) + 1)
    /\ (pc = "done" /\ records # <<>>) => Len(calls) = Len(records) + 1
    /\ (pc \in {"chain", "done"} /\ Len(sub_prompts) > 1) =>
          \A n \in 1..(Len(calls) - 1) :
              IF n = 1 THEN calls[2].prompt = sub_prompts[1].text
              ELSE /\ n - 1 <= Len(records)
                   /\ Contains(calls[n + 1].prompt,
                               <<TemplatePlease, UiIndent>> \o sub_prompts[n].text
                               \o <<"\n", UiIndent>>)
                   /\ Contains(calls[n + 1].prompt,
                               <<"\n", "A: ">> \o records[n - 1][2] \o <<"\n">>)
    /\ e_pc = "running" => (Len(e_calls) = Len(e_responses) + 1 /\ e_i = Len(e_calls))
    /\ e_pc = "returned" => Len(e_calls) = Len(e_responses)
    /\ \A n \in 1..Len(e_calls) :
          IF n = 1 THEN e_calls[1].prompt = e_prompts[1]
          ELSE /\ n - 1 <= Len(e_responses)
               /\ Contains(e_calls[n].prompt,
                           <<TemplatePlease, EagerIndent>> \o e_prompts[n]
                           \o <<"\n", EagerIndent>>)
               /\ Contains(e_calls[n].prompt,
                           <<"\n", "A: ">> \o e_responses[n - 1][2] \o <<"\n">>)

C13_Witness ==
    /\ pc = "chain" /\ i = 3 /\ Len(calls) = 4 /\ Len(records) = 2

\* C14: with splitting enabled, the chain loop runs exactly when the
\* decomposition has more than one sub-query; otherwise the turn makes one
\* direct call with the user's own query, whatever the single sub-query is.
C14_ChainOnlyForSeveral ==
    /\ pc = "chain" => Len(sub_prompts) > 1
    /\ (pc \in {"direct", "done"} /\ enable_prompt_splitting) =>
          IF Len(sub_prompts) > 1
          THEN /\ pc = "done"
               /\ Len(records) = Len(sub_prompts)
               /\ Len(calls) = Len(sub_prompts) + 1
          ELSE /\ records = <<>>
               /\ Len(calls) = 2
               /\ calls[2].prompt = prompt

C14_Witness ==
    /\ pc = "done" /\ enable_prompt_splitting
    /\ prompt = <<"a">>
    /\ sub_prompts = <<[kind |-> "str", text |-> <<"1">>]>>
    /\ calls[2].prompt = <<"a">>

\* C15: run on the same sub-queries with the same backend outcomes, the
\* chain loop of the handler and process_prompt_chain issue the same calls
\* (prompt and model) and produce the same records.
C15_SameExecution ==
    e_pc \in {"running", "returned"} =>
        /\ e_calls = SubSeq(calls, 2, Len(calls))
        /\ e_responses = records

\* C16: every chain execution ends, having issued exactly one call per
\* sub-query, whichever calls fail.
C16_EndsAfterNCalls ==
    /\ (e_pc = "running") ~>
          (/\ e_pc = "returned"
           /\ Len(e_calls) = Len(e_prompts)
           /\ Len(e_responses) = Len(e_prompts))
    /\ (pc = "chain") ~>
          (/\ pc = "done"
           /\ Len(calls) = Len(sub_prompts) + 1
           /\ Len(records) = Len(sub_prompts))

C16_Witness ==
    /\ e_pc = "returned"
    /\ Len(e_prompts) = 3 /\ Len(e_calls) = 3
    /\ e_failed = {1, 3}

\* the messages of the turn that has just completed: the user's input, then
\* one assistant message per sub-query of a chain, or a single one
TurnMessages ==
    LET n == IF Len(sub_prompts) > 1 THEN Len(sub_prompts) ELSE 1
        base == Len(messages) - n
    IN  /\ base >= 1
        /\ messages[base] = [role |-> "user", content |-> prompt]
        /\ \A j \in 1..n :
              /\ messages[base + j].role = "assistant"
              /\ Len(sub_prompts) > 1 =>
                    messages[base + j].content =
                        <<"**Part ", ToString(j), "**: ">> \o sub_prompts[j].text
                        \o <<"\n\n">> \o records[j][2]

\* C17: the session message list only grows, one message at a time, and
\* nothing already in it changes, also when a run is stopped early; every
\* chat input adds one user message, and a turn that completes has added
\* after it one assistant message per sub-query of its chain, in order, or
\* a single assistant message.
C17_AppendOnly ==
    [][/\ \/ messages' = messages
          \/ /\ Len(messages') = Len(messages) + 1
             /\ SubSeq(messages', 1, Len(messages)) = messages
       /\ Cardinality({k \in 1..Len(messages') : messages'[k].role = "user"}) = turns'
       /\ pc' = "done" => TurnMessages']_vars

C17_Witness ==
    /\ pc = "idle" /\ turns = 2
    /\ Len(messages) = 4
    /\ messages[1].role = "user"
    /\ Head(messages[2].content) = "**Part "
    /\ messages[3].role = "user"
    /\ messages[4].role = "assistant"

\* C18: with splitting disabled a turn makes exactly one backend call, with
\* the user's raw query and the session's model, and never decomposes.
C18_NormalChat ==
    (~enable_prompt_splitting /\ pc \in {"direct", "done"}) =>
        /\ calls = <<[prompt |-> prompt, model |-> model]>>
        /\ sub_prompts = <<>> /\ errors = <<>> /\ records = <<>>
        /\ \E k \in 1..Len(messages) :
              /\ messages[k] = [role |-> "user", content |-> prompt]
              /\ \A j \in (k + 1)..Len(messages) : messages[j].role = "assistant"

C18_Witness ==
    /\ ~enable_prompt_splitting /\ pc = "done" /\ turns = 2
    /\ model = "gpt-4o"
    /\ calls = <<[prompt |-> <<"1", "a">>, model |-> "gpt-4o"]>>

====
